---- MODULE Spec2Model ----
(***************************************************************************)
(* braided-react: the singleton system manager (src/src/manager.ts).       *)
(*                                                                         *)
(* One manager closes over three fields (systemPromise, systemInstance,    *)
(* startupErrors) and exposes getSystem, destroySystem and three           *)
(* synchronous peeks.  JavaScript runs each synchronous stretch of code    *)
(* to completion, so every action below is one such stretch: the part of   *)
(* an async function up to its await, or the continuation after it.  The   *)
(* external engine (braided's startSystem / haltSystem) is the             *)
(* environment: it settles an operation at any later time with any         *)
(* outcome its interface allows.                                           *)
(***************************************************************************)
EXTENDS Integers, FiniteSets, Sequences, TLC

\* ---------------------------------------------------------------- bounds
\* number of getSystem() calls issued in a behaviour
NumCalls == 3
\* number of destroySystem() calls issued in a behaviour
NumDestroys == 2
\* cap on the number of startSystem invocations
MaxStarts == 3
\* effect runs of the LazySystemBridge
MaxRuns == 3

\* ------------------------------------------------------------ the config
\* resource identifiers of the config handed to createSystemManager
Resources == {"a", "b"}
\* the resources of that config whose start or halt routine may throw
Unreliable == {"b"}
\* reasons for which the engine's startSystem call itself may reject
StructuralErrors == {"malformed config", "cyclic dependency"}

Callers == 1..NumCalls
Destroyers == 1..NumDestroys
StartIds == 1..MaxStarts
Runs == 1..MaxRuns

\* null of a promise or system reference
Null == 0
\* null of the error map; a present map with key set E is <<E>>
Absent == <<>>
Present(E) == <<E>>

VARIABLES
  systemPromise,   \* manager field: Null or the id of the memoized promise
  systemInstance,  \* manager field: Null or the reference of the cached system
  startupErrors,   \* manager field: Absent or Present(failed resource ids)
  starts,          \* per startSystem invocation: the memoized promise's state
  startCount,      \* number of startSystem invocations so far
  haltCount,       \* number of haltSystem invocations so far
  gcall,           \* per getSystem() call: where it stands and what it got;
                   \* cleared: a destroySystem() reset the manager while the
                   \* call was awaiting
  dcall,           \* per destroySystem() call: where it stands and the system
                   \* it handed to haltSystem
  destroyed,       \* the systems whose destroySystem() has reset the manager
  sinceClear,      \* no getSystem() was called since the last reset
  logged,          \* what the current step wrote with console.error
  obs,             \* what the peeks returned in the current synchronous
                   \* stretch of the caller; forgotten when another step runs
  m2,              \* the fields of a second manager created from the same
                   \* config, with its startSystem and haltSystem operations
  ctx,             \* per component: Null or the system of the SystemProvider
                   \* that wraps it
  hk,              \* per component: the outcome of its last evaluation of a
                   \* hook of createSystemHooks(manager)
  fmt,             \* an error map handed to the accessors' fault formatting,
                   \* and the message made from it
  lz               \* a LazySystemBridge: its props, its component state and
                   \* ref, the closures of its effect runs and the callbacks
                   \* it has called

mgr == <<systemPromise, systemInstance, startupErrors>>
vars == <<systemPromise, systemInstance, startupErrors, starts, startCount,
          haltCount, gcall, dcall, destroyed, sinceClear, logged, obs,
          m2, ctx, hk, fmt, lz>>
\* what a step of the first manager by itself leaves alone
rest == <<m2, ctx, hk, fmt, lz>>

\* ----------------------------------------------------------- the engine
\* startSystem builds a new system object on every invocation: the system
\* of invocation k has reference k and holds the resources that started.
SystemOf(k) == k
ResourcesOf(k) == Resources \ starts[k].errs

NoPeek == [seen |-> FALSE, cur |-> Null, errs |-> Absent, started |-> FALSE]
NoStart == [st |-> "none", errs |-> {}, reason |-> ""]
IdleCall == [st |-> "idle", p |-> Null, res |-> Null, err |-> "",
             cleared |-> FALSE]
IdleDestroy == [st |-> "idle", sys |-> Null]

\* the components of the tree that evaluate the hooks
Comps == {"A", "B"}
\* a hook that was not evaluated yet
NoEval == [kind |-> "none", api |-> "", id |-> "", override |-> FALSE,
           sys |-> Null, res |-> <<>>, msg |-> <<>>, reason |-> "",
           call |-> 0, handle |-> "none", status |-> "", errs |-> Absent,
           calls |-> {}, settled |-> FALSE, stamp |-> 0]
\* nothing handed to the fault formatting
NoFault == [entries |-> <<>>, via |-> "none", msg |-> <<>>]
\* an effect run of LazySystemBridge that has not happened
NoRun == [st |-> "none", mounted |-> FALSE, call |-> 0, sys |-> Null,
          errs |-> {}]
\* a LazySystemBridge that was not mounted yet, with its props: mode says
\* whether manager, config or neither is given, hasUnmount whether
\* onUnmount is
NoBridge(mode, hasUnmount) ==
  [mode |-> mode, hasUnmount |-> hasUnmount, live |-> FALSE, phase |-> "run",
   system |-> Null, ref |-> Null, cur |-> 0, runs |-> 0,
   eff |-> [r \in Runs |-> NoRun], cfgStarts |-> 0,
   onStarted |-> {}, onError |-> {}, onUnmount |-> {}, logs |-> {}]
\* createSystemManager(config) once more: the closure's fields are null
\* (manager.ts:38-40) and nothing was started or halted
NewManager == [systemPromise |-> Null, systemInstance |-> Null,
               startupErrors |-> Absent,
               starts |-> [k \in StartIds |-> "none"],
               startCount |-> 0, haltCount |-> 0, halting |-> 0,
               called |-> FALSE]

\* --------------------------------------------------------- the manager
\* variant: memoizes on the cached system instead of the promise
NeedsStartup_ChecksInstance == systemInstance = Null

\* manager.ts:51  if (!systemPromise)
NeedsStartup == systemPromise = Null

\* manager.ts:53-54  the then-callback's writes to the cache
CacheOnFulfil(k, errs) == [inst |-> SystemOf(k), errs |-> Present(errs)]

\* variant: getSystem throws when the result carries per-resource errors
AwaitOutcome_ThrowsOnErrors(k) ==
  IF starts[k].st = "fulfilled" /\ starts[k].errs = {}
  THEN [st |-> "resolved", res |-> SystemOf(k), err |-> ""]
  ELSE [st |-> "rejected", res |-> Null, err |-> starts[k].reason]

\* variant: getSystem catches the rejection and throws its own error
AwaitOutcome_WrapsError(k) ==
  IF starts[k].st = "fulfilled"
  THEN [st |-> "resolved", res |-> SystemOf(k), err |-> ""]
  ELSE [st |-> "rejected", res |-> Null, err |-> "startup failed"]

\* manager.ts:67-68  const result = await systemPromise; return result.system
AwaitOutcome(k) ==
  IF starts[k].st = "fulfilled"
  THEN [st |-> "resolved", res |-> SystemOf(k), err |-> ""]
  ELSE [st |-> "rejected", res |-> Null, err |-> starts[k].reason]

\* variant: destroySystem halts unconditionally
CanHalt_Always == TRUE

\* manager.ts:82  if (systemPromise && systemInstance)
CanHalt == systemPromise # Null /\ systemInstance # Null

\* variant: the reset forgets systemPromise
ClearedState_KeepsPromise(herrs) ==
  [promise |-> systemPromise, inst |-> Null, errs |-> Absent]

\* variant: the reset forgets startupErrors
ClearedState_KeepsErrors(herrs) ==
  [promise |-> Null, inst |-> Null, errs |-> startupErrors]

\* variant: halt errors are thrown before the reset
ClearedState_ThrowsOnHaltErrors(herrs) ==
  IF herrs = {}
  THEN [promise |-> Null, inst |-> Null, errs |-> Absent]
  ELSE [promise |-> systemPromise, inst |-> systemInstance,
        errs |-> startupErrors]

\* manager.ts:92-94  the reset after the halt was awaited
ClearedState(herrs) == [promise |-> Null, inst |-> Null, errs |-> Absent]

\* variant: isStarted looks at the promise
isStarted_ChecksPromise == systemPromise # Null

\* manager.ts:106-126  the synchronous peeks
getCurrentSystem == systemInstance
getStartupErrors == startupErrors
isStarted == systemInstance # Null

Boot ==
  /\ systemPromise = Null
  /\ systemInstance = Null
  /\ startupErrors = Absent
  /\ starts = [k \in StartIds |-> NoStart]
  /\ startCount = 0
  /\ haltCount = 0
  /\ gcall = [c \in Callers |-> IdleCall]
  /\ dcall = [d \in Destroyers |-> IdleDestroy]
  /\ destroyed = {}
  /\ sinceClear = FALSE
  /\ logged = "none"
  /\ obs = NoPeek
  /\ m2 = NewManager
  /\ ctx = [h \in Comps |-> Null]
  /\ hk = [h \in Comps |-> NoEval]

Init == Boot /\ fmt = NoFault /\ lz = NoBridge("manager", FALSE)

Awaiting == {c \in Callers : gcall[c].st = "awaiting"}

\* getSystem(), up to its await (manager.ts:50-67)
getSystem(c) ==
  /\ gcall[c].st = "idle"
  /\ c > 1 => gcall[c - 1].st # "idle"
  /\ IF NeedsStartup
     THEN /\ startCount < MaxStarts
          /\ startCount' = startCount + 1
          /\ starts' = [starts EXCEPT ![startCount + 1].st = "pending"]
          /\ systemPromise' = startCount + 1
     ELSE UNCHANGED <<startCount, starts, systemPromise>>
  /\ gcall' = [gcall EXCEPT ![c] =
                 [st |-> "awaiting", p |-> systemPromise', res |-> Null,
                  err |-> "", cleared |-> FALSE]]
  /\ sinceClear' = FALSE
  /\ logged' = "none"
  /\ obs' = NoPeek
  /\ UNCHANGED <<systemInstance, startupErrors, haltCount, dcall, destroyed>>

\* startSystem resolves with { system, errors }; the then-callback of
\* manager.ts:52-64 caches both, logs the errors and fulfils the memoized
\* promise
startResolves(k, errs) ==
  /\ starts[k].st = "pending"
  /\ starts' = [starts EXCEPT ![k] = [st |-> "fulfilled", errs |-> errs,
                                      reason |-> ""]]
  /\ systemInstance' = CacheOnFulfil(k, errs).inst
  /\ startupErrors' = CacheOnFulfil(k, errs).errs
  /\ logged' = IF errs # {} THEN "startup" ELSE "none"
  /\ obs' = NoPeek
  /\ UNCHANGED <<systemPromise, startCount, haltCount, gcall, dcall,
                 destroyed, sinceClear>>

\* startSystem rejects: the then-callback is skipped and the memoized
\* promise rejects with the same reason
startRejects(k, reason) ==
  /\ starts[k].st = "pending"
  /\ starts' = [starts EXCEPT ![k] = [st |-> "rejected", errs |-> {},
                                      reason |-> reason]]
  /\ logged' = "none"
  /\ obs' = NoPeek
  /\ UNCHANGED <<systemPromise, systemInstance, startupErrors, startCount,
                 haltCount, gcall, dcall, destroyed, sinceClear>>

\* getSystem(), after its await (manager.ts:67-68)
getSystemResume(c) ==
  /\ gcall[c].st = "awaiting"
  /\ starts[gcall[c].p].st \in {"fulfilled", "rejected"}
  /\ gcall' = [gcall EXCEPT ![c] =
                 [@ EXCEPT !.st = AwaitOutcome(gcall[c].p).st,
                           !.res = AwaitOutcome(gcall[c].p).res,
                           !.err = AwaitOutcome(gcall[c].p).err]]
  /\ logged' = "none"
  /\ obs' = NoPeek
  /\ UNCHANGED <<systemPromise, systemInstance, startupErrors, starts,
                 startCount, haltCount, dcall, destroyed, sinceClear>>

\* destroySystem(), up to its await (manager.ts:81-83); without a started
\* system the body is skipped and the call resolves
destroySystem(d) ==
  /\ dcall[d].st = "idle"
  /\ d > 1 => dcall[d - 1].st # "idle"
  /\ IF CanHalt
     THEN /\ haltCount' = haltCount + 1
          /\ dcall' = [dcall EXCEPT ![d] = [st |-> "halting",
                                            sys |-> systemInstance]]
     ELSE /\ haltCount' = haltCount
          /\ dcall' = [dcall EXCEPT ![d].st = "resolved"]
  /\ logged' = "none"
  /\ obs' = NoPeek
  /\ UNCHANGED <<systemPromise, systemInstance, startupErrors, starts,
                 startCount, gcall, destroyed, sinceClear>>

\* haltSystem resolves with { errors }; destroySystem() continues after its
\* await (manager.ts:83-94): it logs the errors and resets the manager
destroyResume(d, herrs) ==
  /\ dcall[d].st = "halting"
  /\ logged' = IF herrs # {} THEN "shutdown" ELSE "none"
  /\ systemPromise' = ClearedState(herrs).promise
  /\ systemInstance' = ClearedState(herrs).inst
  /\ startupErrors' = ClearedState(herrs).errs
  /\ dcall' = [dcall EXCEPT ![d].st = "resolved"]
  /\ destroyed' = destroyed \cup {dcall[d].sys}
  /\ sinceClear' = TRUE
  /\ gcall' = [c \in Callers |->
                 IF gcall[c].st = "awaiting"
                 THEN [gcall[c] EXCEPT !.cleared = TRUE]
                 ELSE gcall[c]]
  /\ obs' = NoPeek
  /\ UNCHANGED <<starts, startCount, haltCount>>

\* a caller evaluates getCurrentSystem(), getStartupErrors() and isStarted()
peek ==
  /\ obs' = [seen |-> TRUE, cur |-> getCurrentSystem,
             errs |-> getStartupErrors, started |-> isStarted]
  /\ logged' = "none"
  /\ UNCHANGED <<systemPromise, systemInstance, startupErrors, starts,
                 startCount, haltCount, gcall, dcall, destroyed, sinceClear>>

Next ==
  \/ \E c \in Callers : getSystem(c) /\ UNCHANGED rest
  \/ \E k \in StartIds, errs \in SUBSET Unreliable :
       startResolves(k, errs) /\ UNCHANGED rest
  \/ \E k \in StartIds, reason \in StructuralErrors :
       startRejects(k, reason) /\ UNCHANGED rest
  \/ \E c \in Callers : getSystemResume(c) /\ UNCHANGED rest
  \/ \E d \in Destroyers : destroySystem(d) /\ UNCHANGED rest
  \/ \E d \in Destroyers, herrs \in SUBSET Unreliable :
       destroyResume(d, herrs) /\ UNCHANGED rest
  \/ peek /\ UNCHANGED rest

Spec == Init /\ [][Next]_vars

\* ===================================================== claims C1 .. C10
Done(c) == gcall[c].st \in {"resolved", "rejected"}
Pending == {k \in StartIds : starts[k].st = "pending"}
Calls(c) == gcall[c].st = "idle" /\ gcall'[c].st = "awaiting"
Clears(d) == dcall[d].st = "halting" /\ dcall'[d].st = "resolved"
Fulfils(k) == starts[k].st = "pending" /\ starts'[k].st = "fulfilled"
Rejects(k) == starts[k].st = "pending" /\ starts'[k].st = "rejected"
\* the three fields are null
IsReset == systemPromise = Null /\ systemInstance = Null /\ startupErrors = Absent

\* C1: a getSystem() call made while an earlier call is still awaiting, with
\* no reset of the manager since that earlier call, invokes no startSystem
\* and awaits the same startup; calls that await the same startup settle
\* alike, and when they resolve they resolve to the same system reference.
C1_ConcurrentCallsShareOneStartup ==
  /\ [][\A c, d \in Callers :
          (gcall[c].st = "awaiting" /\ ~ gcall[c].cleared /\ Calls(d)) =>
             (startCount' = startCount /\ gcall'[d].p = gcall[c].p)]_vars
  /\ [](\A c, d \in Callers :
          (Done(c) /\ Done(d) /\ gcall[c].p = gcall[d].p) =>
             (gcall[c].st = gcall[d].st /\ gcall[c].res = gcall[d].res))

C1_Witness ==
  /\ startCount = 1
  /\ \A c \in 1..3 :
       gcall[c].st = "resolved" /\ gcall[c].p = 1 /\ gcall[c].res = SystemOf(1)
  /\ destroyed = {}

\* C2: at most one startSystem operation is in flight, and a getSystem()
\* call made while one is in flight awaits that operation and invokes no
\* other.
C2_AtMostOneStartupInFlight ==
  /\ [](Cardinality(Pending) <= 1)
  /\ [][\A c \in Callers : (Calls(c) /\ Pending # {}) =>
          (startCount' = startCount /\ gcall'[c].p \in Pending)]_vars

\* C3: when a destroySystem() that halted a system resolves, isStarted() is
\* false and getCurrentSystem() and getStartupErrors() are absent; the next
\* getSystem() invokes startSystem again, and no getSystem() joins or
\* resolves to a system that was destroyed before the call.
C3_ResetAndRestart ==
  /\ [][ /\ \A d \in Destroyers : Clears(d) =>
              /\ (~ isStarted)'
              /\ getCurrentSystem' = Null
              /\ getStartupErrors' = Absent
         /\ \A c \in Callers : Calls(c) =>
              /\ sinceClear => (startCount' = startCount + 1 /\
                                gcall'[c].p = startCount')
              /\ SystemOf(gcall'[c].p) \notin destroyed
         /\ \A c \in Callers :
              (gcall[c].st = "awaiting" /\ gcall'[c].st = "resolved") =>
                 gcall'[c].res = SystemOf(gcall[c].p) ]_vars

C3_Witness ==
  \E c \in Callers :
    /\ gcall[c].st = "resolved"
    /\ destroyed = {SystemOf(1)}
    /\ gcall[c].res = SystemOf(2)

\* C4: the three fields are cleared together: the cached system is never
\* absent while the memoized promise is one that has resolved to a system.
C4_ClearIsAtomic ==
  /\ [](~ (/\ systemInstance = Null
           /\ systemPromise # Null
           /\ starts[systemPromise].st = "fulfilled"))
  /\ [][(systemInstance # Null /\ systemInstance' = Null) =>
          (systemPromise' = Null /\ startupErrors' = Absent)]_vars

C4_Witness ==
  /\ destroyed # {}
  /\ sinceClear
  /\ IsReset

\* C5: a startup that completes with per-resource errors fulfils getSystem()
\* with the partial system; from its completion the manager is started with
\* that system and an error set whose keys are exactly the failed resources;
\* before any startup completes getStartupErrors() is absent.
C5_GracefulDegradation ==
  /\ [](\A c \in Callers :
          (Done(c) /\ starts[gcall[c].p].st = "fulfilled") =>
             (gcall[c].st = "resolved" /\ gcall[c].res = SystemOf(gcall[c].p)))
  /\ []((\A k \in StartIds : starts[k].st # "fulfilled") =>
          startupErrors = Absent)
  /\ [](systemInstance # Null =>
          /\ isStarted
          /\ starts[systemInstance].st = "fulfilled"
          /\ startupErrors = Present(starts[systemInstance].errs)
          /\ ResourcesOf(systemInstance) \cap startupErrors[1] = {})
  /\ [][\A k \in StartIds : Fulfils(k) =>
          /\ systemInstance' = SystemOf(k)
          /\ startupErrors' = Present(starts'[k].errs)]_vars

C5_Witness ==
  \E c \in Callers :
    /\ gcall[c].st = "resolved"
    /\ starts[gcall[c].p].errs = {"b"}
    /\ systemInstance = gcall[c].res
    /\ startupErrors = Present({"b"})
    /\ ResourcesOf(systemInstance) = {"a"}

\* C6: when startSystem itself rejects, every getSystem() call awaiting that
\* startup rejects with that very error, and the rejection writes nothing to
\* the cache: isStarted(), getCurrentSystem() and getStartupErrors() are
\* what they were.
C6_StructuralFailurePropagates ==
  /\ [](\A c \in Callers :
          (Done(c) /\ starts[gcall[c].p].st = "rejected") =>
             (gcall[c].st = "rejected" /\ gcall[c].err = starts[gcall[c].p].reason))
  /\ [][\A k \in StartIds : Rejects(k) =>
          (systemInstance' = systemInstance /\ startupErrors' = startupErrors)]_vars
  /\ []((startCount = 1 /\ starts[1].st = "rejected") =>
          (~ isStarted /\ getCurrentSystem = Null /\ getStartupErrors = Absent))

C6_Witness ==
  /\ starts[1].st = "rejected"
  /\ gcall[1].st = "rejected" /\ gcall[1].p = 1
  /\ gcall[2].st = "rejected" /\ gcall[2].p = 1
  /\ gcall[1].err = "cyclic dependency"
  /\ ~ isStarted

\* C7: once started, the manager keeps the same cached system until a
\* destroySystem() clears it: getCurrentSystem() changes from a system only
\* to absent, and only in the clearing step of a destroySystem(); a
\* getSystem() called while started invokes no startSystem and resolves to
\* the cached system.
C7_StartedUntilDestroyed ==
  [][systemInstance # Null =>
       /\ systemInstance' \in {systemInstance, Null}
       /\ systemInstance' = Null => \E d \in Destroyers : Clears(d)
       /\ \A c \in Callers : Calls(c) =>
            /\ startCount' = startCount
            /\ starts[gcall'[c].p].st = "fulfilled"
            /\ SystemOf(gcall'[c].p) = systemInstance]_vars

\* C8: on a manager on which nothing was ever started, destroySystem()
\* resolves without invoking haltSystem and leaves the manager as it was.
C8_DestroyBeforeStartIsNoOp ==
  startCount = 0 =>
    /\ haltCount = 0
    /\ \A d \in Destroyers : dcall[d].st \in {"idle", "resolved"}
    /\ IsReset
    /\ ~ isStarted
    /\ logged = "none"

C8_Witness ==
  /\ startCount = 0
  /\ dcall[1].st = "resolved"
  /\ ~ isStarted

\* C9: a destroySystem() whose haltSystem reported per-resource errors still
\* resolves and resets the three fields, and a getSystem() that follows the
\* reset starts afresh.
C9_HaltErrorsDoNotBlockReset ==
  /\ [][\A d \in Destroyers :
          (dcall[d].st = "halting" /\ dcall'[d] # dcall[d] /\ logged' = "shutdown")
             => (dcall'[d].st = "resolved" /\ IsReset' /\ sinceClear')]_vars
  /\ [](logged = "shutdown" => IsReset)
  /\ [][\A c \in Callers : (Calls(c) /\ sinceClear) =>
          starts'[gcall'[c].p].st = "pending"]_vars

C9_Witness ==
  /\ logged = "shutdown"
  /\ dcall[1].st = "resolved"
  /\ dcall[1].sys = SystemOf(1)
  /\ IsReset

\* C10: the peeks change nothing and invoke nothing; the manager's fields
\* change only in a step of getSystem() or destroySystem(); isStarted() is
\* true exactly when getCurrentSystem() is present.
C10_PeeksArePure ==
  /\ [](obs.started <=> obs.cur # Null)
  /\ [][ /\ (obs'.seen /\ obs' # obs) =>
              /\ mgr' = mgr
              /\ startCount' = startCount /\ haltCount' = haltCount
              /\ starts' = starts /\ gcall' = gcall /\ dcall' = dcall
              /\ obs'.cur = systemInstance /\ obs'.errs = startupErrors
         /\ mgr' # mgr => (gcall' # gcall \/ dcall' # dcall \/ starts' # starts)
       ]_vars

C10_Witness ==
  /\ obs.started
  /\ obs.cur = SystemOf(1)
  /\ obs.errs = Present({"b"})
  /\ systemInstance = SystemOf(1)

\* ================================================== a second manager
\* createSystemManager called twice gives two closures, each with its own
\* systemPromise, systemInstance and startupErrors (manager.ts:35-40).  The
\* second manager runs the same code on the record m2; its callers are not
\* told apart.  The engine gives its systems references of their own.
SystemOf2(k) == MaxStarts + k

\* variant: the memoized promise is a module-level variable shared by all
\* managers
NeedsStartup2_SharedPromise == systemPromise = Null

\* manager.ts:51  if (!systemPromise), in the second closure
NeedsStartup2 == m2.systemPromise = Null

\* manager.ts:82  if (systemPromise && systemInstance), in the second closure
CanHalt2 == m2.systemPromise # Null /\ m2.systemInstance # Null

\* what a step of the second manager by itself leaves alone
first == <<systemPromise, systemInstance, startupErrors, starts, startCount,
           haltCount, gcall, dcall, destroyed, sinceClear, logged, obs>>

\* getSystem() on the second manager, up to its await (manager.ts:50-67)
getSystem2 ==
  /\ IF NeedsStartup2
     THEN /\ m2.startCount < MaxStarts
          /\ m2' = [m2 EXCEPT !.startCount = @ + 1,
                              !.starts[m2.startCount + 1] = "pending",
                              !.systemPromise = m2.startCount + 1,
                              !.called = TRUE]
     ELSE m2' = [m2 EXCEPT !.called = TRUE]
  /\ UNCHANGED <<first, ctx, hk, fmt, lz>>

\* the second manager's startSystem resolves (manager.ts:52-64)
startResolves2(k, errs) ==
  /\ m2.starts[k] = "pending"
  /\ m2' = [m2 EXCEPT !.starts[k] = "fulfilled",
                      !.systemInstance = SystemOf2(k),
                      !.startupErrors = Present(errs)]
  /\ UNCHANGED <<first, ctx, hk, fmt, lz>>

\* the second manager's startSystem rejects
startRejects2(k) ==
  /\ m2.starts[k] = "pending"
  /\ m2' = [m2 EXCEPT !.starts[k] = "rejected"]
  /\ UNCHANGED <<first, ctx, hk, fmt, lz>>

\* destroySystem() on the second manager, up to its await (manager.ts:81-83)
destroySystem2 ==
  /\ m2.haltCount < NumDestroys
  /\ IF CanHalt2
     THEN m2' = [m2 EXCEPT !.haltCount = @ + 1, !.halting = @ + 1]
     ELSE m2' = m2
  /\ UNCHANGED <<first, ctx, hk, fmt, lz>>

\* destroySystem() on the second manager, after its await (manager.ts:83-94)
destroyResume2 ==
  /\ m2.halting > 0
  /\ m2' = [m2 EXCEPT !.halting = @ - 1,
                      !.systemPromise = Null,
                      !.systemInstance = Null,
                      !.startupErrors = Absent,
                      !.called = FALSE]
  /\ UNCHANGED <<first, ctx, hk, fmt, lz>>

\* two managers of the same config, the first one with a single client
NextTwo ==
  \/ getSystem(1) /\ UNCHANGED rest
  \/ \E k \in StartIds, errs \in SUBSET Unreliable :
       startResolves(k, errs) /\ UNCHANGED rest
  \/ \E k \in StartIds, reason \in StructuralErrors :
       startRejects(k, reason) /\ UNCHANGED rest
  \/ getSystemResume(1) /\ UNCHANGED rest
  \/ destroySystem(1) /\ UNCHANGED rest
  \/ \E herrs \in SUBSET Unreliable : destroyResume(1, herrs) /\ UNCHANGED rest
  \/ getSystem2
  \/ \E k \in StartIds, errs \in SUBSET Unreliable : startResolves2(k, errs)
  \/ \E k \in StartIds : startRejects2(k)
  \/ destroySystem2
  \/ destroyResume2

SpecTwo == Init /\ [][NextTwo]_vars

\* C11: two managers of the same config are independent: a step that changes
\* one manager's fields or engine operations leaves the other's unchanged;
\* a manager on which getSystem() was called has invoked startSystem for
\* itself, once if it was never destroyed; and the two never cache the same
\* system reference.
C11_ManagersAreIndependent ==
  /\ [][ /\ m2' # m2 => first' = first
         /\ <<mgr, starts, startCount, haltCount>>' #
              <<mgr, starts, startCount, haltCount>> => m2' = m2 ]_vars
  /\ [](m2.called => (m2.systemPromise # Null /\ m2.startCount >= 1))
  /\ [](gcall[1].st # "idle" => startCount >= 1)
  /\ []((m2.called /\ m2.haltCount = 0) => m2.startCount = 1)
  /\ []((gcall[1].st # "idle" /\ haltCount = 0) => startCount = 1)
  /\ [](m2.systemInstance # Null =>
          /\ m2.systemInstance # systemInstance
          /\ \A k \in StartIds : m2.systemInstance # SystemOf(k))

C11_Witness ==
  /\ gcall[1].st = "resolved"
  /\ systemInstance = SystemOf(1)
  /\ m2.systemInstance = SystemOf2(1)
  /\ startCount = 1
  /\ m2.startCount = 1

\* ====================================== the hooks of createSystemHooks
\* the system a test hands to SystemProvider: no system of the engine
MockSystem == MaxStarts + MaxStarts + 1
\* a resource that is missing from a system
Undefined == <<>>
\* system[resourceId] (hooks.tsx:198): the instance of resource id in a
\* system, a reference of its own per system
Instance(sys, id) ==
  IF sys = MockSystem THEN <<sys, id>>
  ELSE IF sys \in StartIds /\ id \in ResourcesOf(sys) THEN <<sys, id>>
  ELSE Undefined

\* the order in which the engine starts the resources of the config, which
\* is the insertion order of the error map
ConfigOrder == <<"a", "b">>
\* the message of the error a resource's start routine throws
ErrorText(id) == IF id = "a" THEN "a failed" ELSE "b failed"
\* Array.from(errors.entries()) for an error map with key set E
Entries(E) ==
  LET ids == SelectSeq(ConfigOrder, LAMBDA x : x \in E)
  IN  [i \in 1..Len(ids) |-> <<ids[i], ErrorText(ids[i])>>]

\* variant: the pairs are joined last to first
ErrorList_Reversed(entries) ==
  LET RECURSIVE J(_)
      J(i) == IF i < 1 THEN <<>>
              ELSE <<entries[i][1], ": ", entries[i][2]>>
                   \o (IF i > 1 THEN <<", ">> ELSE <<>>) \o J(i - 1)
  IN  J(Len(entries))

\* hooks.tsx:160-162  entries.map(([id, err]) => `${id}: ${err.message}`)
\* .join(", "); a string is the sequence of its pieces
ErrorList(entries) ==
  LET RECURSIVE J(_)
      J(i) == IF i > Len(entries) THEN <<>>
              ELSE <<entries[i][1], ": ", entries[i][2]>>
                   \o (IF i < Len(entries) THEN <<", ">> ELSE <<>>) \o J(i + 1)
  IN  J(1)

\* hooks.tsx:163  new Error(`System startup failed: ${errorList}`)
FaultMessage(entries) == <<"System startup failed: ">> \o ErrorList(entries)

\* errors && errors.size > 0 (hooks.tsx:159, 174)
HasErrors(errors) == errors # Absent /\ errors[1] # {}

\* the calls and resets of destroySystem() so far
DestroyStamp ==
  Cardinality({d \in Destroyers : dcall[d].st # "idle"})
  + Cardinality({d \in Destroyers : dcall[d].st = "resolved" /\ dcall[d].sys # Null})

\* variant: the manager is consulted before the context
UseSystemOutcome_ManagerFirst(h) ==
  IF getCurrentSystem # Null
  THEN IF HasErrors(getStartupErrors)
       THEN [kind |-> "faulted", override |-> FALSE, sys |-> Null,
             msg |-> FaultMessage(Entries(getStartupErrors[1]))]
       ELSE [kind |-> "returned", override |-> FALSE,
             sys |-> getCurrentSystem, msg |-> <<>>]
  ELSE IF ctx[h] # Null
  THEN [kind |-> "returned", override |-> TRUE, sys |-> ctx[h], msg |-> <<>>]
  ELSE [kind |-> "suspended", override |-> FALSE, sys |-> Null, msg |-> <<>>]

\* variant: a started system is returned whatever its error set
UseSystemOutcome_IgnoresErrors(h) ==
  IF ctx[h] # Null
  THEN [kind |-> "returned", override |-> TRUE, sys |-> ctx[h], msg |-> <<>>]
  ELSE IF getCurrentSystem # Null
  THEN [kind |-> "returned", override |-> FALSE,
        sys |-> getCurrentSystem, msg |-> <<>>]
  ELSE [kind |-> "suspended", override |-> FALSE, sys |-> Null, msg |-> <<>>]

\* variant: the system is returned as soon as a startup is pending
UseSystemOutcome_ReturnsEarly(h) ==
  IF ctx[h] # Null
  THEN [kind |-> "returned", override |-> TRUE, sys |-> ctx[h], msg |-> <<>>]
  ELSE IF getCurrentSystem # Null \/ systemPromise # Null
  THEN [kind |-> "returned", override |-> FALSE,
        sys |-> IF getCurrentSystem # Null THEN getCurrentSystem
                ELSE SystemOf(systemPromise),
        msg |-> <<>>]
  ELSE [kind |-> "suspended", override |-> FALSE, sys |-> Null, msg |-> <<>>]

\* useSystem (hooks.tsx:149-182): the context first, then the manager's
\* cached system with its errors, else suspend on getSystem()
UseSystemOutcome(h) ==
  IF ctx[h] # Null
  THEN [kind |-> "returned", override |-> TRUE, sys |-> ctx[h], msg |-> <<>>]
  ELSE IF getCurrentSystem # Null
  THEN IF HasErrors(getStartupErrors)
       THEN [kind |-> "faulted", override |-> FALSE, sys |-> Null,
             msg |-> FaultMessage(Entries(getStartupErrors[1]))]
       ELSE [kind |-> "returned", override |-> FALSE,
             sys |-> getCurrentSystem, msg |-> <<>>]
  ELSE [kind |-> "suspended", override |-> FALSE, sys |-> Null, msg |-> <<>>]

\* hooks.tsx:197-198  const system = useSystem(); return system[resourceId]
Indexed(o, id) == IF o.kind = "returned" THEN Instance(o.sys, id) ELSE Undefined

\* one evaluation of useSystem or useResource by component h: the outcome
\* is returned or thrown; to suspend, getSystem() is called and the promise
\* of its .then is thrown (hooks.tsx:172-181)
Evaluate(h, api, id, o) ==
  /\ IF o.kind = "suspended"
     THEN \E c \in Callers :
            /\ getSystem(c)
            /\ hk' = [hk EXCEPT ![h] =
                 [NoEval EXCEPT !.kind = "suspended", !.api = api, !.id = id,
                                !.call = c, !.handle = "pending",
                                !.stamp = DestroyStamp]]
     ELSE /\ hk' = [hk EXCEPT ![h] =
                 [NoEval EXCEPT !.kind = o.kind, !.api = api, !.id = id,
                                !.override = o.override, !.sys = o.sys,
                                !.res = IF api = "useResource"
                                        THEN Indexed(o, id) ELSE Undefined,
                                !.msg = o.msg, !.stamp = DestroyStamp]]
          /\ logged' = "none"
          /\ obs' = NoPeek
          /\ UNCHANGED <<systemPromise, systemInstance, startupErrors, starts,
                         startCount, haltCount, gcall, dcall, destroyed,
                         sinceClear>>
  /\ UNCHANGED <<m2, ctx, fmt, lz>>

\* component h evaluates useSystem() in a render
useSystem(h) == Evaluate(h, "useSystem", "", UseSystemOutcome(h))

\* component h evaluates useResource(id) in a render
useResource(h, id) == Evaluate(h, "useResource", id, UseSystemOutcome(h))

\* how the promise thrown by useSystem settles once getSystem() call c has
\* settled (hooks.tsx:172-180): a rejection of getSystem() passes through
\* the .then; its callback reads the error map and throws when it is not
\* empty
HandleOutcome(c) ==
  IF gcall[c].st = "rejected"
  THEN [handle |-> "rejected", reason |-> gcall[c].err, msg |-> <<>>]
  ELSE IF HasErrors(getStartupErrors)
  THEN [handle |-> "rejected", reason |-> "",
        msg |-> FaultMessage(Entries(getStartupErrors[1]))]
  ELSE [handle |-> "fulfilled", reason |-> "", msg |-> <<>>]

\* the callback of hooks.tsx:172-180 runs once the getSystem() promise of a
\* suspended evaluation has settled, and settles the thrown promise
handleSettles(h) ==
  /\ hk[h].kind = "suspended"
  /\ hk[h].handle = "pending"
  /\ gcall[hk[h].call].st \in {"resolved", "rejected"}
  /\ hk' = [hk EXCEPT ![h] =
       [@ EXCEPT !.handle = HandleOutcome(hk[h].call).handle,
                 !.reason = HandleOutcome(hk[h].call).reason,
                 !.msg = HandleOutcome(hk[h].call).msg]]
  /\ logged' = "none"
  /\ obs' = NoPeek
  /\ UNCHANGED <<systemPromise, systemInstance, startupErrors, starts,
                 startCount, haltCount, gcall, dcall, destroyed, sinceClear,
                 m2, ctx, fmt, lz>>

\* React discards component h (its subtree is torn down); useSystem has no
\* cleanup, so nothing of the manager is touched
discard(h) ==
  /\ hk[h].kind # "none"
  /\ hk' = [hk EXCEPT ![h] = NoEval]
  /\ logged' = "none"
  /\ obs' = NoPeek
  /\ UNCHANGED <<systemPromise, systemInstance, startupErrors, starts,
                 startCount, haltCount, gcall, dcall, destroyed, sinceClear,
                 m2, ctx, fmt, lz>>

\* SystemProvider (hooks.tsx:121-131) is mounted around component h with the
\* given system, or unmounted
providerMount(h) ==
  /\ ctx[h] = Null
  /\ ctx' = [ctx EXCEPT ![h] = MockSystem]
  /\ UNCHANGED <<first, m2, hk, fmt, lz>>

providerUnmount(h) ==
  /\ ctx[h] # Null
  /\ ctx' = [ctx EXCEPT ![h] = Null]
  /\ UNCHANGED <<first, m2, hk, fmt, lz>>

\* variant: under a provider the errors are still read from the manager
StatusOutcome_ReadsManager(h) ==
  IF ctx[h] # Null
  THEN [kind |-> "returned", override |-> TRUE,
        status |-> IF HasErrors(getStartupErrors) THEN "error" ELSE "ready",
        sys |-> ctx[h], errs |-> getStartupErrors]
  ELSE [kind |-> "returned", override |-> FALSE,
        status |-> IF hk[h].api = "useSystemStatus" /\ ~hk[h].override
                   THEN hk[h].status
                   ELSE IF isStarted THEN "ready" ELSE "idle",
        sys |-> getCurrentSystem, errs |-> getStartupErrors]

\* variant: a startup in flight seeds the status Loading
StatusOutcome_SeedsLoading(h) ==
  IF ctx[h] # Null
  THEN [kind |-> "returned", override |-> TRUE, status |-> "ready",
        sys |-> ctx[h], errs |-> Absent]
  ELSE [kind |-> "returned", override |-> FALSE,
        status |-> IF hk[h].api = "useSystemStatus" /\ ~hk[h].override
                   THEN hk[h].status
                   ELSE IF isStarted THEN "ready"
                   ELSE IF systemPromise # Null THEN "loading" ELSE "idle",
        sys |-> getCurrentSystem, errs |-> getStartupErrors]

\* variant: the status hook throws on a non-empty error map as useSystem does
StatusOutcome_ThrowsOnErrors(h) ==
  IF ctx[h] # Null
  THEN [kind |-> "returned", override |-> TRUE, status |-> "ready",
        sys |-> ctx[h], errs |-> Absent]
  ELSE [kind |-> IF HasErrors(getStartupErrors) THEN "faulted" ELSE "returned",
        override |-> FALSE,
        status |-> IF hk[h].api = "useSystemStatus" /\ ~hk[h].override
                   THEN hk[h].status
                   ELSE IF isStarted THEN "ready" ELSE "idle",
        sys |-> getCurrentSystem, errs |-> getStartupErrors]

\* useSystemStatus (hooks.tsx:214-268): Ready with the context's system
\* when there is one; else the component's status state, seeded from
\* isStarted() at its first render, with the manager's system and errors
StatusOutcome(h) ==
  IF ctx[h] # Null
  THEN [kind |-> "returned", override |-> TRUE, status |-> "ready",
        sys |-> ctx[h], errs |-> Absent]
  ELSE [kind |-> "returned", override |-> FALSE,
        status |-> IF hk[h].api = "useSystemStatus" /\ ~hk[h].override
                   THEN hk[h].status
                   ELSE IF isStarted THEN "ready" ELSE "idle",
        sys |-> getCurrentSystem, errs |-> getStartupErrors]

\* the four flags of the returned object (hooks.tsx:219-222, 260-263)
Flags(status) ==
  [isIdle |-> status = "idle", isLoading |-> status = "loading",
   isReady |-> status = "ready", isError |-> status = "error"]

\* component h evaluates useSystemStatus() in a render
useSystemStatus(h) ==
  /\ hk' = [hk EXCEPT ![h] =
       [NoEval EXCEPT !.kind = StatusOutcome(h).kind,
                      !.api = "useSystemStatus",
                      !.override = StatusOutcome(h).override,
                      !.sys = StatusOutcome(h).sys,
                      !.status = StatusOutcome(h).status,
                      !.errs = StatusOutcome(h).errs,
                      !.calls = IF StatusOutcome(h).override THEN {}
                                ELSE hk[h].calls,
                      !.settled = IF StatusOutcome(h).override THEN FALSE
                                  ELSE hk[h].settled,
                      !.stamp = DestroyStamp]]
  /\ logged' = "none"
  /\ obs' = NoPeek
  /\ UNCHANGED <<systemPromise, systemInstance, startupErrors, starts,
                 startCount, haltCount, gcall, dcall, destroyed, sinceClear,
                 m2, ctx, fmt, lz>>

\* variant: the trigger handed out under a provider starts the manager
startSystemNoOp_Starts(h) ==
  /\ hk[h].api = "useSystemStatus"
  /\ hk[h].override
  /\ \E c \in Callers : getSystem(c)
  /\ UNCHANGED rest

\* component h calls the startSystem it got from useSystemStatus() under a
\* provider: () => {} (hooks.tsx:226)
startSystemNoOp(h) ==
  /\ hk[h].api = "useSystemStatus"
  /\ hk[h].override
  /\ UNCHANGED vars

\* variant: the trigger always goes through Loading and getSystem()
TriggerStarts_Always == TRUE

\* variant: the trigger reclassifies as Ready as soon as a startup exists
TriggerStarts_ChecksPromise == systemPromise = Null

\* if (manager.isStarted()) { setStatus("ready"); return } (hooks.tsx:238-241)
TriggerStarts == ~ isStarted

\* variant: a resolved getSystem() is Ready whatever the error map
SettledStatus_IgnoresErrors(c) ==
  IF gcall[c].st = "rejected" THEN "error" ELSE "ready"

\* the status the callbacks chained on getSystem() set when call c has
\* settled (hooks.tsx:244-256)
SettledStatus(c) ==
  IF gcall[c].st = "rejected" THEN "error"
  ELSE IF HasErrors(getStartupErrors) THEN "error"
  ELSE "ready"

\* component h calls the startSystem it got from useSystemStatus() outside
\* any provider (hooks.tsx:237-257)
startSystemTrigger(h) ==
  /\ hk[h].api = "useSystemStatus"
  /\ ~ hk[h].override
  /\ IF TriggerStarts
     THEN \E c \in Callers :
            /\ getSystem(c)
            /\ hk' = [hk EXCEPT ![h].status = "loading",
                                ![h].calls = @ \cup {c}]
     ELSE /\ hk' = [hk EXCEPT ![h].status = "ready"]
          /\ logged' = "none"
          /\ obs' = NoPeek
          /\ UNCHANGED <<systemPromise, systemInstance, startupErrors, starts,
                         startCount, haltCount, gcall, dcall, destroyed,
                         sinceClear>>
  /\ UNCHANGED <<m2, ctx, fmt, lz>>

\* the promise of a getSystem() the trigger of component h called has
\* settled: its .then or .catch callback sets the status
statusSettles(h, c) ==
  /\ c \in hk[h].calls
  /\ gcall[c].st \in {"resolved", "rejected"}
  /\ hk' = [hk EXCEPT ![h].status = SettledStatus(c),
                      ![h].calls = @ \ {c},
                      ![h].settled = TRUE]
  /\ logged' = "none"
  /\ obs' = NoPeek
  /\ UNCHANGED <<systemPromise, systemInstance, startupErrors, starts,
                 startCount, haltCount, gcall, dcall, destroyed, sinceClear,
                 m2, ctx, fmt, lz>>

\* ------------------------------------------ the manager under its hooks
NextHooks ==
  \/ \E h \in Comps : useSystem(h)
  \/ \E h \in Comps, id \in Resources : useResource(h, id)
  \/ \E h \in Comps : useSystemStatus(h)
  \/ \E h \in Comps : startSystemNoOp(h)
  \/ \E h \in Comps : handleSettles(h)
  \/ \E h \in Comps : discard(h)
  \/ \E h \in Comps : providerMount(h)
  \/ \E h \in Comps : providerUnmount(h)
  \/ \E k \in StartIds, errs \in SUBSET Unreliable :
       startResolves(k, errs) /\ UNCHANGED rest
  \/ \E k \in StartIds, reason \in StructuralErrors :
       startRejects(k, reason) /\ UNCHANGED rest
  \/ \E c \in Callers : getSystemResume(c) /\ UNCHANGED rest

SpecHooks == Init /\ [][NextHooks]_vars

\* ------------------- one component, direct callers and destroySystem()
\* the component whose renders are followed through resets of the manager
Host == "A"

NextLife ==
  \/ useSystem(Host)
  \/ \E id \in Resources : useResource(Host, id)
  \/ handleSettles(Host)
  \/ discard(Host)
  \/ \E c \in Callers : getSystem(c) /\ UNCHANGED rest
  \/ \E k \in StartIds, errs \in SUBSET Unreliable :
       startResolves(k, errs) /\ UNCHANGED rest
  \/ \E k \in StartIds, reason \in StructuralErrors :
       startRejects(k, reason) /\ UNCHANGED rest
  \/ \E c \in Callers : getSystemResume(c) /\ UNCHANGED rest
  \/ \E d \in Destroyers : destroySystem(d) /\ UNCHANGED rest
  \/ \E d \in Destroyers, herrs \in SUBSET Unreliable :
       destroyResume(d, herrs) /\ UNCHANGED rest

SpecLife == Init /\ [][NextLife]_vars

\* ----- one component on useSystemStatus, direct callers and one
\* destroySystem() call
NextStatus ==
  \/ useSystemStatus(Host)
  \/ startSystemTrigger(Host)
  \/ \E c \in Callers : statusSettles(Host, c)
  \/ discard(Host)
  \/ \E c \in Callers : getSystem(c) /\ UNCHANGED rest
  \/ \E k \in StartIds, errs \in SUBSET Unreliable :
       startResolves(k, errs) /\ UNCHANGED rest
  \/ \E k \in StartIds, reason \in StructuralErrors :
       startRejects(k, reason) /\ UNCHANGED rest
  \/ \E c \in Callers : getSystemResume(c) /\ UNCHANGED rest
  \/ destroySystem(1) /\ UNCHANGED rest
  \/ \E herrs \in SUBSET Unreliable :
       destroyResume(1, herrs) /\ UNCHANGED rest

SpecStatus == Init /\ [][NextStatus]_vars

\* ------------------------------------------------------ LazySystemBridge
\* the system a startSystem(config) called by effect run r builds
SystemOfRun(r) == MockSystem + r

\* variant: the bridge starts the config itself even when given a manager
StartsVia_IgnoresManager(mode) ==
  IF mode = "none" THEN "none" ELSE "config"

\* lazy.tsx:97-106: manager.getSystem() if a manager is given, else
\* startSystem(config) if a config is, else a rejected promise
StartsVia(mode) ==
  IF mode = "manager" THEN "manager"
  ELSE IF mode = "config" THEN "config"
  ELSE "none"

\* variant: the callbacks run whether or not the effect was cleaned up
Skips_Never(b, r) == FALSE

\* if (!mounted) return (lazy.tsx:110, 121)
Skips(b, r) == ~ b.eff[r].mounted

\* variant: the cleanup tests the system its closure captured when the
\* effect ran, which is null
CleanupCalls_StaleClosure(b) == Null # Null /\ b.hasUnmount

\* if (systemRef.current && onUnmount) (lazy.tsx:132)
CleanupCalls(b) == b.ref # Null /\ b.hasUnmount

\* the cleanup of the current effect run (lazy.tsx:128-148), as the bridge
\* it leaves
Cleanup(b) ==
  [b EXCEPT !.eff[b.cur].mounted = FALSE,
            !.onUnmount = IF CleanupCalls(b) THEN @ \cup {<<b.cur, b.ref>>}
                          ELSE @]

\* the effect runs as run r on bridge b (lazy.tsx:93-126): mounted is set
\* and the start promise is made
RunEffect(b, r) ==
  IF StartsVia(b.mode) = "manager"
  THEN \E c \in Callers :
         /\ getSystem(c)
         /\ lz' = [b EXCEPT !.cur = r, !.runs = r,
                            !.eff[r] = [NoRun EXCEPT !.st = "pending",
                                                     !.mounted = TRUE,
                                                     !.call = c]]
  ELSE /\ lz' = [b EXCEPT !.cur = r, !.runs = r,
                          !.cfgStarts = IF StartsVia(b.mode) = "config"
                                        THEN @ + 1 ELSE @,
                          !.eff[r] = [NoRun EXCEPT
                                        !.st = IF StartsVia(b.mode) = "config"
                                               THEN "pending" ELSE "rejected",
                                        !.mounted = TRUE]]
       /\ logged' = "none"
       /\ obs' = NoPeek
       /\ UNCHANGED <<systemPromise, systemInstance, startupErrors, starts,
                      startCount, haltCount, gcall, dcall, destroyed,
                      sinceClear>>

\* the bridge is mounted as a new component instance and its effect runs;
\* under StrictMode the effect is cleaned up and run again in the same
\* commit, before anything else can happen
lazyMount(strict) ==
  /\ ~ lz.live
  /\ lz.runs + (IF strict THEN 2 ELSE 1) <= MaxRuns
  /\ RunEffect([lz EXCEPT !.live = TRUE, !.system = Null, !.ref = Null,
                          !.phase = IF strict THEN "strict" ELSE "run"],
               lz.runs + 1)
  /\ UNCHANGED <<m2, ctx, hk, fmt>>

\* StrictMode's cleanup and second run of the effect
lazyStrictRerun ==
  /\ lz.live
  /\ lz.phase = "strict"
  /\ RunEffect([Cleanup(lz) EXCEPT !.phase = "run"], lz.runs + 1)
  /\ UNCHANGED <<m2, ctx, hk, fmt>>

\* the bridge is unmounted: the cleanup of its effect runs
lazyUnmount ==
  /\ lz.live
  /\ lz.phase = "run"
  /\ lz' = [Cleanup(lz) EXCEPT !.live = FALSE, !.cur = 0]
  /\ UNCHANGED <<first, m2, ctx, hk, fmt>>

\* the engine settles the startSystem(config) of effect run r
lazyStartResolves(r, errs) ==
  /\ lz.phase = "run"
  /\ StartsVia(lz.mode) = "config"
  /\ lz.eff[r].st = "pending"
  /\ lz' = [lz EXCEPT !.eff[r].st = "fulfilled",
                      !.eff[r].sys = SystemOfRun(r),
                      !.eff[r].errs = errs]
  /\ UNCHANGED <<first, m2, ctx, hk, fmt>>

lazyStartRejects(r) ==
  /\ lz.phase = "run"
  /\ StartsVia(lz.mode) = "config"
  /\ lz.eff[r].st = "pending"
  /\ lz' = [lz EXCEPT !.eff[r].st = "rejected"]
  /\ UNCHANGED <<first, m2, ctx, hk, fmt>>

\* the start promise of effect run r as the callbacks see it: with a
\* manager, the getSystem() call with getStartupErrors() || new Map()
\* (lazy.tsx:98-101)
StartPromise(b, r) ==
  IF StartsVia(b.mode) = "manager"
  THEN [st |-> IF gcall[b.eff[r].call].st = "resolved" THEN "fulfilled"
               ELSE IF gcall[b.eff[r].call].st = "rejected" THEN "rejected"
               ELSE "pending",
        sys |-> gcall[b.eff[r].call].res,
        errs |-> IF getStartupErrors = Absent THEN {} ELSE getStartupErrors[1]]
  ELSE [st |-> b.eff[r].st, sys |-> b.eff[r].sys, errs |-> b.eff[r].errs]

\* the .then or .catch callback of effect run r runs (lazy.tsx:108-126)
lazyThen(r) ==
  /\ lz.phase = "run"
  /\ lz.eff[r].st \in {"pending", "fulfilled", "rejected"}
  /\ StartPromise(lz, r).st \in {"fulfilled", "rejected"}
  /\ lz' =
       IF Skips(lz, r) THEN [lz EXCEPT !.eff[r].st = "done"]
       ELSE IF StartPromise(lz, r).st = "rejected"
       THEN [lz EXCEPT !.eff[r].st = "done", !.logs = @ \cup {r}]
       ELSE [lz EXCEPT !.eff[r].st = "done",
                       !.onError = IF StartPromise(lz, r).errs # {}
                                   THEN @ \cup {r} ELSE @,
                       !.ref = StartPromise(lz, r).sys,
                       !.system = StartPromise(lz, r).sys,
                       !.onStarted = @ \cup {<<r, StartPromise(lz, r).sys>>}]
  /\ UNCHANGED <<first, m2, ctx, hk, fmt>>

\* the props a bridge is rendered with
InitLazy ==
  /\ Boot
  /\ fmt = NoFault
  /\ lz \in {NoBridge(mode, u) : mode \in {"manager", "config", "none"},
                                 u \in BOOLEAN}

NextLazy ==
  \/ \E strict \in BOOLEAN : lazyMount(strict)
  \/ lazyStrictRerun
  \/ lazyUnmount
  \/ \E r \in Runs, errs \in SUBSET Unreliable : lazyStartResolves(r, errs)
  \/ \E r \in Runs : lazyStartRejects(r)
  \/ \E r \in Runs : lazyThen(r)
  \/ /\ lz.phase = "run"
     /\ \/ \E k \in StartIds, errs \in SUBSET Unreliable :
             startResolves(k, errs) /\ UNCHANGED rest
        \/ \E k \in StartIds, reason \in StructuralErrors :
             startRejects(k, reason) /\ UNCHANGED rest
        \/ \E c \in Callers : getSystemResume(c) /\ UNCHANGED rest

SpecLazy == InitLazy /\ [][NextLazy]_vars

\* ------------------------------------- the message of the accessors' fault
\* identifiers and error texts of failing resources
ErrIds == {"api", "cache", "db"}
Messages == {"failed", "timeout"}
\* the error maps with at least one entry, as their entries in insertion
\* order: no identifier twice
ErrorMaps ==
  {e \in UNION {[1..n -> ErrIds \X Messages] : n \in 1..Cardinality(ErrIds)} :
     \A i, j \in 1..Len(e) : e[i][1] = e[j][1] => i = j}

InitMsg ==
  /\ Boot
  /\ lz = NoBridge("manager", FALSE)
  /\ fmt \in {[NoFault EXCEPT !.entries = e] : e \in ErrorMaps}

\* useSystem on a started manager whose error map is not empty throws the
\* formatted error (hooks.tsx:158-169)
faultInRender ==
  /\ fmt.via = "none"
  /\ Len(fmt.entries) > 0
  /\ fmt' = [fmt EXCEPT !.via = "render", !.msg = FaultMessage(fmt.entries)]
  /\ UNCHANGED <<first, m2, ctx, hk, lz>>

\* the callback chained on getSystem() throws the formatted error when the
\* error map is not empty (hooks.tsx:173-179)
faultInThen ==
  /\ fmt.via = "none"
  /\ Len(fmt.entries) > 0
  /\ fmt' = [fmt EXCEPT !.via = "then", !.msg = FaultMessage(fmt.entries)]
  /\ UNCHANGED <<first, m2, ctx, hk, lz>>

NextMsg == faultInRender \/ faultInThen

SpecMsg == InitMsg /\ [][NextMsg]_vars

\* ==================================================== claims C12 .. C20
\* C12: there is no cancellation. A startup that getSystem() has begun and
\* that completes is cached by the manager in its completing step, whether
\* or not the component that requested it is still mounted: the manager is
\* then started with that system and its error set, and a later getSystem()
\* begins nothing and resolves to that system.
C12_NoCancellation ==
  /\ [][\A k \in StartIds : Fulfils(k) =>
          /\ isStarted'
          /\ systemInstance' = SystemOf(k)
          /\ startupErrors' = Present(starts'[k].errs)]_vars
  /\ [][\A c \in Callers : (Calls(c) /\ isStarted) =>
          /\ startCount' = startCount
          /\ starts[gcall'[c].p].st = "fulfilled"
          /\ SystemOf(gcall'[c].p) = systemInstance]_vars

\* this step is a render of component h that evaluates the given hook
Evaluates(h, api) ==
  /\ hk'[h] # hk[h]
  /\ hk'[h].api = api
  /\ hk'[h].handle \in {"none", "pending"}
\* useSystem or useResource
Accesses(h) == Evaluates(h, "useSystem") \/ Evaluates(h, "useResource")
\* what this step may not touch when it has no lifecycle effect
Lifecycle == <<systemPromise, systemInstance, startupErrors, startCount, haltCount>>
\* the systems the engine has handed or will hand to the manager
EngineSystems == {SystemOf(k) : k \in StartIds}

\* C13: under a SystemProvider, useSystem() returns the provider's system
\* at once whatever the manager's state: it does not suspend or fault, and
\* what it returns is not the manager's system.
C13_OverrideWins ==
  /\ [][\A h \in Comps : (Evaluates(h, "useSystem") /\ ctx[h] # Null) =>
          /\ hk'[h].kind = "returned"
          /\ hk'[h].sys = ctx[h]
          /\ hk'[h].sys \notin EngineSystems
          /\ hk'[h].msg = <<>>]_vars
  /\ [](\A h \in Comps : hk[h].override =>
          (hk[h].kind = "returned" /\ hk[h].sys = MockSystem))
C13_Witness ==
  \E h \in Comps :
    /\ hk[h].api = "useSystem" /\ hk[h].override
    /\ hk[h].sys = MockSystem
    /\ isStarted /\ HasErrors(startupErrors)

\* C14: the provider has no lifecycle effect. Mounting or unmounting it, and
\* any render or trigger under it, leaves the manager's fields and the
\* counts of startSystem and haltSystem invocations as they were: the
\* manager changes only when a startup completes or when a component
\* outside any provider suspends.
C14_ProviderHasNoLifecycleEffect ==
  [][ /\ ctx' # ctx => Lifecycle' = Lifecycle
      /\ \A h \in Comps : (ctx[h] # Null /\ hk'[h] # hk[h]) =>
           Lifecycle' = Lifecycle
      /\ Lifecycle' # Lifecycle =>
           \/ \E k \in StartIds : Fulfils(k)
           \/ \E h \in Comps : ctx[h] = Null /\ Accesses(h)
                               /\ hk'[h].kind = "suspended" ]_vars
C14_Witness ==
  \E h \in Comps :
    /\ ctx[h] # Null
    /\ hk[h].api = "useSystemStatus" /\ hk[h].override
    /\ hk[h].status = "ready" /\ hk[h].sys = MockSystem
    /\ IsReset /\ startCount = 0

\* C15: with no provider, however many renders of however many components
\* evaluate useSystem or useResource on a manager that is not started, the
\* engine is invoked once, and every one of these renders suspends on a
\* promise that follows the one memoized startup.
C15_EvaluationsShareOneStartup ==
  /\ [][\A h \in Comps : (Accesses(h) /\ ctx[h] = Null /\ ~ isStarted) =>
          /\ hk'[h].kind = "suspended"
          /\ startCount' = 1
          /\ gcall'[hk'[h].call].p = systemPromise'
          /\ systemPromise # Null => systemPromise' = systemPromise]_vars
  /\ [](startCount <= 1)
  /\ [](\A h \in Comps : hk[h].kind = "suspended" => gcall[hk[h].call].p = 1)
C15_Witness ==
  /\ hk["A"].kind = "suspended" /\ hk["B"].kind = "suspended"
  /\ hk["A"].call = 3 /\ hk["B"].call = 2
  /\ startCount = 1
  /\ \A c \in Callers : gcall[c].p = 1

\* C16: with no provider, useSystem() on a manager that is not started
\* suspends; on a started manager it returns the cached system when the
\* error set is empty and faults when it is not. A system it returns is
\* always one whose startup has completed.
C16_SuspendThenSettle ==
  /\ [][\A h \in Comps : (Evaluates(h, "useSystem") /\ ctx[h] = Null) =>
          IF ~ isStarted THEN hk'[h].kind = "suspended"
          ELSE IF HasErrors(startupErrors)
               THEN hk'[h].kind = "faulted" /\ hk'[h].sys = Null
               ELSE hk'[h].kind = "returned" /\ hk'[h].sys = systemInstance]_vars
  /\ [](\A h \in Comps :
          (hk[h].api = "useSystem" /\ hk[h].kind = "returned" /\ ~ hk[h].override)
            => (hk[h].sys \in StartIds /\ starts[hk[h].sys].st = "fulfilled"))
C16_Witness ==
  /\ hk["A"].api = "useSystem" /\ hk["A"].kind = "returned"
  /\ ~ hk["A"].override /\ hk["A"].sys = SystemOf(1)
  /\ gcall[1].st = "resolved"
  /\ hk["B"].api = "useSystem" /\ hk["B"].kind = "suspended"
  /\ hk["B"].handle = "fulfilled"

\* C17: with no provider, on a manager started with a non-empty error set,
\* useSystem() and useResource(id) fault for every id, the ids of the
\* resources that did start included; no system and no resource is returned.
C17_BroadBrushFault ==
  [][\A h \in Comps :
       (Accesses(h) /\ ctx[h] = Null /\ isStarted /\ HasErrors(startupErrors)) =>
          /\ hk'[h].kind = "faulted"
          /\ hk'[h].sys = Null
          /\ hk'[h].res = Undefined
          /\ hk'[h].msg # <<>>]_vars
C17_Witness ==
  \E h \in Comps :
    /\ hk[h].api = "useResource" /\ hk[h].id = "a"
    /\ hk[h].kind = "faulted"
    /\ isStarted /\ "a" \in ResourcesOf(systemInstance)
    /\ startupErrors = Present({"b"})

\* C18: the message of the fault for per-resource failures is "System
\* startup failed: " followed by one "id: message" pair per entry of the
\* error map, in the map's order, with ", " between consecutive pairs and
\* nothing after the last; each failed identifier stands in exactly one
\* pair.
C18_FaultMessageFormat ==
  fmt.via # "none" =>
    LET e == fmt.entries
        n == Len(e)
        s == fmt.msg
    IN  /\ s[1] = "System startup failed: "
        /\ Len(s) = 4 * n
        /\ \A i \in 1..n :
             /\ s[4 * i - 2] = e[i][1]
             /\ s[4 * i - 1] = ": "
             /\ s[4 * i] = e[i][2]
             /\ i < n => s[4 * i + 1] = ", "
        /\ \A i \in 1..n :
             Cardinality({j \in 1..n : s[4 * j - 2] = e[i][1]}) = 1
C18_Witness ==
  /\ fmt.via = "then"
  /\ Len(fmt.entries) = 3
  /\ fmt.entries[1][1] = "db" /\ fmt.entries[3][1] = "api"
  /\ fmt.msg[2] = "db" /\ fmt.msg[10] = "api"

\* C19: a structural startup failure reaches the error boundary. When the
\* promise a component suspended on has rejected with the error startSystem
\* rejected with, the component's next render of useSystem() or
\* useResource() raises that error as a fault and does not suspend again.
C19_StructuralFailureFaults ==
  [][\A h \in Comps :
       ( /\ Accesses(h)
         /\ ctx[h] = Null
         /\ hk[h].kind = "suspended"
         /\ hk[h].handle = "rejected"
         /\ hk[h].reason \in StructuralErrors ) =>
          /\ hk'[h].kind = "faulted"
          /\ hk'[h].reason = hk[h].reason]_vars

\* C20: useResource(id) behaves as useSystem() does and, when useSystem()
\* returns a system, returns that system's resource id. Two renders of
\* useResource(id) by a component that both return, with no destroySystem()
\* called or completed between them, return the same instance.
C20_ResourceIsStable ==
  /\ [][Evaluates(Host, "useResource") =>
          /\ hk'[Host].kind = UseSystemOutcome(Host).kind
          /\ hk'[Host].msg = UseSystemOutcome(Host).msg
          /\ hk'[Host].kind = "returned" =>
               hk'[Host].res = Instance(UseSystemOutcome(Host).sys, hk'[Host].id)]_vars
  /\ [][( /\ Evaluates(Host, "useResource")
          /\ hk[Host].api = "useResource"
          /\ hk[Host].kind = "returned" /\ hk'[Host].kind = "returned"
          /\ hk'[Host].id = hk[Host].id
          /\ hk'[Host].stamp = hk[Host].stamp ) =>
            hk'[Host].res = hk[Host].res]_vars

\* ==================================================== claims C21 .. C30
\* this step is a render of component h that evaluates useSystemStatus();
\* this step is a call of the trigger; this step runs a callback of it
EvaluatesStatus(h) ==
  /\ hk'[h].api = "useSystemStatus"
  /\ hk'[h].status = hk[h].status \/ hk[h].api # "useSystemStatus"
  /\ hk'[h].calls = hk[h].calls
  /\ gcall' = gcall
  /\ hk'[h] # hk[h]
Triggers(h) ==
  /\ hk[h].api = "useSystemStatus" /\ hk'[h].api = "useSystemStatus"
  /\ \/ \E c \in Callers : Calls(c) /\ hk'[h].calls = hk[h].calls \cup {c}
     \/ /\ gcall' = gcall /\ hk'[h].calls = hk[h].calls
        /\ hk'[h].status # hk[h].status
SettlesStatus(h, c) ==
  /\ c \in hk[h].calls
  /\ hk'[h].api = "useSystemStatus"
  /\ hk'[h].calls = hk[h].calls \ {c}

\* C21: useSystemStatus() and its trigger never throw and never suspend,
\* whatever the manager's state: every evaluation returns, per-resource
\* errors are returned as the errors map, a trigger call and its callbacks
\* leave the component rendered, and the callback of a rejected getSystem()
\* sets the classification Failed.
C21_StatusNeverThrows ==
  /\ [](hk[Host].api = "useSystemStatus" => hk[Host].kind = "returned")
  /\ [][hk'[Host].api = "useSystemStatus" =>
          /\ hk'[Host].kind = "returned"
          /\ hk'[Host].msg = <<>> /\ hk'[Host].handle = "none"
          /\ EvaluatesStatus(Host) => hk'[Host].errs = getStartupErrors]_vars
  /\ [][\A c \in Callers :
          (SettlesStatus(Host, c) /\ gcall[c].st = "rejected") =>
             hk'[Host].status = "error"]_vars
C21_Witness ==
  /\ hk[Host].api = "useSystemStatus" /\ hk[Host].kind = "returned"
  /\ hk[Host].errs = Present({"b"})
  /\ isStarted /\ HasErrors(startupErrors)

\* the same mounted component holds the status before and after the step
SameStatusHook(h) ==
  hk[h].api = "useSystemStatus" /\ hk'[h].api = "useSystemStatus"

\* C22: a trigger call on an idle manager moves the classification from
\* Idle to Loading and from there to Ready or Failed; once a callback of the
\* trigger has settled the classification, it is never Loading again.
C22_NeverLoadingAgain ==
  [][SameStatusHook(Host) =>
       /\ (hk[Host].status = "idle" /\ hk'[Host].status # "idle" /\ ~ isStarted)
            => hk'[Host].status = "loading"
       /\ hk[Host].status = "loading" =>
            hk'[Host].status \in {"loading", "ready", "error"}
       /\ hk[Host].settled => hk'[Host].status # "loading"]_vars

\* C22 as amended: as above, but after a settlement the classification
\* becomes Loading again exactly when the trigger is called again while the
\* manager is not started; and it leaves Loading only by a callback of the
\* trigger or by a trigger call on a started manager.
C22_LoadingOnlyByTrigger ==
  [][SameStatusHook(Host) =>
       /\ (hk[Host].status = "idle" /\ hk'[Host].status # "idle" /\ ~ isStarted)
            => hk'[Host].status = "loading"
       /\ hk[Host].status = "loading" =>
            hk'[Host].status \in {"loading", "ready", "error"}
       /\ (hk[Host].status # "loading" /\ hk'[Host].status = "loading") =>
            (Triggers(Host) /\ ~ isStarted /\ \E c \in Callers : Calls(c))
       /\ (hk[Host].status = "loading" /\ hk'[Host].status # "loading") =>
            \/ \E c \in Callers : SettlesStatus(Host, c)
            \/ Triggers(Host) /\ isStarted /\ hk'[Host].status = "ready"]_vars
C22_Witness ==
  /\ hk[Host].api = "useSystemStatus"
  /\ hk[Host].settled /\ hk[Host].status = "loading"
  /\ starts[1].st = "rejected" /\ startCount = 1

\* C23: when a getSystem() the trigger called settles, the classification
\* becomes Ready exactly if the call resolved and the manager's error map
\* is empty or absent, and Failed exactly if the call rejected or the error
\* map is not empty.
C23_SettlementClassification ==
  [][\A c \in Callers : SettlesStatus(Host, c) =>
       /\ hk[Host].status \in {"loading", "ready", "error"}
       /\ hk'[Host].status \in {"ready", "error"}
       /\ hk'[Host].status = "ready" <=>
            (gcall[c].st = "resolved" /\ ~ HasErrors(startupErrors))
       /\ hk'[Host].status = "error" <=>
            (gcall[c].st = "rejected" \/ HasErrors(startupErrors))]_vars
C23_Witness ==
  /\ hk[Host].api = "useSystemStatus" /\ hk[Host].settled
  /\ hk[Host].status = "error" /\ hk[Host].calls = {}
  /\ gcall[1].st = "resolved" /\ startupErrors = Present({"b"})

\* C24: under a SystemProvider, useSystemStatus() returns isReady true and
\* the other three flags false, the provider's system as system and no
\* errors, whatever the manager's state.
C24_OverrideIsReady ==
  /\ [][\A h \in Comps :
          (hk'[h] # hk[h] /\ hk'[h].api = "useSystemStatus" /\ ctx[h] # Null) =>
             /\ hk'[h].kind = "returned"
             /\ Flags(hk'[h].status) =
                  [isIdle |-> FALSE, isLoading |-> FALSE,
                   isReady |-> TRUE, isError |-> FALSE]
             /\ hk'[h].sys = ctx[h]
             /\ hk'[h].sys \notin EngineSystems
             /\ hk'[h].errs = Absent]_vars
  /\ [](\A h \in Comps :
          (hk[h].api = "useSystemStatus" /\ hk[h].override) =>
             (hk[h].status = "ready" /\ hk[h].sys = MockSystem
              /\ hk[h].errs = Absent))
C24_Witness ==
  /\ hk["A"].api = "useSystemStatus" /\ hk["A"].override
  /\ hk["A"].status = "ready" /\ hk["A"].sys = MockSystem
  /\ isStarted /\ HasErrors(startupErrors)
  /\ hk["B"].api = "useSystemStatus" /\ ~ hk["B"].override
  /\ hk["B"].errs = Present({"b"})

Unmounts == lz.live /\ ~ lz'.live
RunsCallback(r) == lz.eff[r].st # "done" /\ lz'.eff[r].st = "done"

\* C26: a LazySystemBridge given a manager, mounted and unmounted any
\* number of times: the engine is invoked once and never by the bridge
\* itself, nothing is halted, an unmount leaves the manager's fields as they
\* are and the manager started if it was, and whenever a mount has a system
\* to render with it is the one system the manager caches.
C26_ManagerSurvivesRemounts ==
  /\ [](lz.mode = "manager" =>
          /\ lz.cfgStarts = 0
          /\ startCount <= 1
          /\ lz.runs >= 1 => startCount = 1
          /\ haltCount = 0
          /\ lz.system # Null =>
               (lz.system = SystemOf(1) /\ systemInstance = SystemOf(1))
          /\ \A e \in lz.onStarted : e[2] = SystemOf(1))
  /\ [][lz.mode = "manager" =>
          /\ isStarted => isStarted'
          /\ Unmounts => (mgr' = mgr /\ startCount' = startCount
                          /\ haltCount' = haltCount)]_vars
C26_Witness ==
  /\ lz.mode = "manager" /\ lz.live /\ lz.cur = 3
  /\ lz.system = SystemOf(1)
  /\ lz.onStarted = {<<1, SystemOf(1)>>, <<2, SystemOf(1)>>, <<3, SystemOf(1)>>}
  /\ startCount = 1 /\ isStarted

\* C27: a LazySystemBridge given a config starts the system once under a
\* StrictMode double mount: the second run of the mount effect, after the
\* cleanup of the first, invokes no startSystem.
C27_StrictModeStartsOnce ==
  [][(lz.mode = "config" /\ lz.phase = "strict" /\ lz'.phase = "run") =>
       lz'.cfgStarts = lz.cfgStarts]_vars

\* C28: when the bridge is unmounted, onUnmount is called once, with the
\* system the bridge holds, if onUnmount is given and the bridge had set
\* its system; it is called for no other unmount and at most once per
\* mount. With no onUnmount given nothing is called and nothing is halted.
C28_UnmountCallsOnUnmount ==
  /\ [][Unmounts =>
          /\ haltCount' = haltCount /\ mgr' = mgr
          /\ IF lz.hasUnmount /\ lz.system # Null
             THEN /\ lz'.onUnmount = lz.onUnmount \cup {<<lz.cur, lz.system>>}
                  /\ <<lz.cur, lz.system>> \notin lz.onUnmount
             ELSE lz'.onUnmount = lz.onUnmount]_vars
  /\ [][lz'.onUnmount # lz.onUnmount => Unmounts]_vars
  /\ [](~ lz.hasUnmount => (lz.onUnmount = {} /\ haltCount = 0))
  /\ [](\A e \in lz.onUnmount : <<e[1], e[2]>> \in lz.onStarted)
C28_Witness ==
  /\ lz.hasUnmount /\ ~ lz.live
  /\ lz.mode = "config"
  /\ lz.onUnmount = {<<2, SystemOfRun(2)>>}
  /\ lz.eff[1].st = "done" /\ lz.runs = 2

\* C29: when the start promise of an effect run settles after that run was
\* cleaned up, its callback does nothing: no onStarted, no onError, no
\* write of the system state or ref, no "startup failed" log.
C29_NoCallbacksAfterUnmount ==
  [][\A r \in Runs : (RunsCallback(r) /\ ~ lz.eff[r].mounted) =>
       /\ lz'.onStarted = lz.onStarted
       /\ lz'.onError = lz.onError
       /\ lz'.system = lz.system
       /\ lz'.ref = lz.ref
       /\ lz'.logs = lz.logs]_vars
C29_Witness ==
  /\ lz.mode = "config" /\ ~ lz.live /\ lz.runs = 1
  /\ lz.eff[1].st = "done" /\ lz.eff[1].errs = {"b"}
  /\ lz.onStarted = {} /\ lz.onError = {} /\ lz.logs = {}
  /\ lz.system = Null /\ lz.ref = Null

\* ==================================================== claims C31 .. C40
\* C31: whenever the cached system is present the memoized startup promise
\* is present too, so a getSystem() on a started manager begins no second
\* startup.
C31_CachedImpliesMemoized ==
  /\ [](systemInstance # Null => systemPromise # Null)
  /\ [][\A c \in Callers : (Calls(c) /\ systemInstance # Null) =>
          (startCount' = startCount /\ gcall'[c].p = systemPromise)]_vars

\* this step is a destroySystem() call that invokes haltSystem
Halts(d) == dcall[d].st = "idle" /\ dcall'[d].st = "halting"

\* C32: haltSystem is invoked at most once per started system: a
\* destroySystem() called while an earlier one is still awaiting haltSystem
\* does not halt the same system again.
C32_HaltedAtMostOnce ==
  [][\A d \in Destroyers : Halts(d) =>
       \A e \in Destroyers \ {d} : dcall[e].sys # dcall'[d].sys]_vars

\* C33: no started system is dropped unhalted: what a destroySystem()
\* clears when it resumes after its halt is the system it passed to
\* haltSystem and the promise of that system's startup, never a newer
\* startup or a newer system.
C33_ClearsWhatItHalted ==
  [][\A d \in Destroyers : Clears(d) =>
       /\ systemInstance # Null => systemInstance = dcall[d].sys
       /\ systemPromise # Null => SystemOf(systemPromise) = dcall[d].sys]_vars

\* a caller whose destroySystem() has resolved calls it again
\* (manager.ts:81-83)
destroySystemAgain(d) ==
  /\ dcall[d].st = "resolved"
  /\ IF CanHalt
     THEN /\ haltCount' = haltCount + 1
          /\ dcall' = [dcall EXCEPT ![d] = [st |-> "halting",
                                            sys |-> systemInstance]]
     ELSE /\ haltCount' = haltCount
          /\ dcall' = dcall
  /\ logged' = "none"
  /\ obs' = NoPeek
  /\ UNCHANGED <<systemPromise, systemInstance, startupErrors, starts,
                 startCount, gcall, destroyed, sinceClear>>

\* the manager with callers that call destroySystem() again
NextAgain ==
  \/ Next
  \/ \E d \in Destroyers : destroySystemAgain(d) /\ UNCHANGED rest

SpecAgain == Init /\ [][NextAgain]_vars

\* C34: a destroySystem() called while a startup is in flight is a no-op:
\* it invokes no haltSystem, leaves the memoized promise and the rest of
\* the manager alone and resolves at once; the startup then completes and
\* its system is cached, so that the manager is started.
C34_DestroyInFlightIsNoOp ==
  /\ [][\A d \in Destroyers :
          (dcall[d].st \in {"idle", "resolved"} /\ dcall'[d] # dcall[d]
           /\ systemPromise # Null /\ starts[systemPromise].st = "pending") =>
             /\ haltCount' = haltCount
             /\ dcall'[d].st = "resolved"
             /\ mgr' = mgr
             /\ starts' = starts
             /\ logged' = "none"]_vars
  /\ [][\A k \in StartIds : (Fulfils(k) /\ k = systemPromise) =>
          (isStarted' /\ getCurrentSystem' = SystemOf(k))]_vars

\* the startups that have rejected
Rejected == {k \in StartIds : starts[k].st = "rejected"}

\* C35: a rejected startup is sticky: once startSystem has rejected, the
\* rejected promise stays memoized; no later getSystem() invokes
\* startSystem, every later getSystem() awaits the rejected promise and
\* rejects with its error, and no destroySystem() resets the manager.
C35_RejectionIsSticky ==
  /\ [](Rejected # {} => systemPromise \in Rejected)
  /\ [][Rejected # {} => startCount' = startCount]_vars
  /\ [][\A c \in Callers : (Calls(c) /\ Rejected # {}) =>
          gcall'[c].p \in Rejected]_vars
  /\ [][\A d \in Destroyers :
          (dcall[d].st = "idle" /\ dcall'[d].st # "idle" /\ Rejected # {}) =>
             (dcall'[d].st = "resolved" /\ mgr' = mgr)]_vars

\* C36: while a destroySystem() awaits haltSystem the manager still reports
\* isStarted() true with the system being halted, and a getSystem() called
\* in that window invokes no startSystem and awaits the startup of that
\* system; a startup is begun only by a getSystem() called when no
\* destroySystem() is awaiting.
C36_StartedWhileHalting ==
  /\ [](\A d \in Destroyers : dcall[d].st = "halting" =>
          (isStarted /\ getCurrentSystem = dcall[d].sys))
  /\ [][\A c \in Callers, d \in Destroyers :
          (Calls(c) /\ dcall[d].st = "halting") =>
             /\ startCount' = startCount
             /\ SystemOf(gcall'[c].p) = dcall[d].sys]_vars

\* C37: outside any provider, what useSystemStatus() returns is consistent
\* in every render: isReady comes with a system and isIdle with none, also
\* after a destroySystem() and after a startup another caller of the same
\* manager began.
C37_FlagsMatchSystem ==
  [][(EvaluatesStatus(Host) /\ ~ hk'[Host].override) =>
       /\ Flags(hk'[Host].status).isReady => hk'[Host].sys # Null
       /\ Flags(hk'[Host].status).isIdle => hk'[Host].sys = Null]_vars

\* this step is the first render of useSystemStatus() by component h
SeedsStatus(h) ==
  hk[h].api # "useSystemStatus" /\ hk'[h].api = "useSystemStatus"

\* C38: outside any provider, a manager that completed its startup with a
\* non-empty error set is classified Failed, never Ready, by each path that
\* classifies: the seeding at the first render, the settlement of a
\* triggered startup, and a trigger call after settlement.
C38_ErrorsClassifyFailed ==
  [][(/\ isStarted /\ HasErrors(getStartupErrors)
      /\ ~ hk'[Host].override
      /\ \/ SeedsStatus(Host)
         \/ \E c \in Callers : SettlesStatus(Host, c)
         \/ Triggers(Host)) =>
       (Flags(hk'[Host].status).isError /\ ~ Flags(hk'[Host].status).isReady)]_vars

\* this step settles the promise thrown by the suspended evaluation of h
SettlesHandle(h) ==
  hk[h].handle = "pending" /\ hk'[h].handle \in {"fulfilled", "rejected"}
\* the startup awaited by the suspended evaluation of h
Awaited(h) == gcall[hk[h].call].p
\* no destroySystem() was called or resumed since h suspended
NoDestroySince(h) == hk[h].stamp = DestroyStamp

\* C39: the promise thrown by a suspending useSystem() settles only after
\* the startup it awaits has completed and the manager has cached its
\* system and error set; it rejects exactly when the error set is not
\* empty or startSystem rejected; and with no destroySystem() in between,
\* the evaluation that follows its fulfilment finds the system cached and
\* returns it without suspending.
C39_WakeUpAfterCaching ==
  /\ [][\A h \in Comps : SettlesHandle(h) =>
          /\ starts[Awaited(h)].st \in {"fulfilled", "rejected"}
          /\ hk'[h].handle = "rejected" <=>
               (HasErrors(getStartupErrors) \/ starts[Awaited(h)].st = "rejected")
          /\ (NoDestroySince(h) /\ starts[Awaited(h)].st = "fulfilled") =>
               (getCurrentSystem # Null /\ getStartupErrors # Absent)]_vars
  /\ [][\A h \in Comps :
          (hk[h].handle = "fulfilled" /\ NoDestroySince(h) /\ ctx[h] = Null
           /\ Evaluates(h, "useSystem")) =>
             /\ getCurrentSystem # Null
             /\ hk'[h].kind = "returned"
             /\ hk'[h].sys = getCurrentSystem]_vars

\* C40: every system started by a LazySystemBridge given a config and an
\* onUnmount callback is passed to onUnmount once the component has
\* unmounted, also when it unmounted before the startup completed. Once the
\* bridge is unmounted and the callback of a run has run, no later step can
\* hand that run's system to onUnmount, so it has been handed by then.
C40_StartedSystemReachesOnUnmount ==
  \A r \in Runs :
    (/\ lz.mode = "config" /\ lz.hasUnmount
     /\ ~ lz.live
     /\ lz.eff[r].st = "done" /\ lz.eff[r].sys # Null) =>
       \E e \in lz.onUnmount : e[2] = lz.eff[r].sys
====
